---- MODULE Spec2Model ----
(***************************************************************************)
(* Alert-detection engine and audit-commit pipeline of the /api/detect     *)
(* route (frontend/src/app/api/detect): the module-level maps              *)
(* pigPositionHistory and lastAlertTime, detectAlerts, logToHedera and the *)
(* POST handler; and the detection loop of the LivePigDetection component  *)
(* that calls the route once a second.                                     *)
(*                                                                         *)
(* Times are Date.now() readings in milliseconds.  Sample coordinates are  *)
(* stored doubled (x2 = 2*x + width), so that the center x + width/2 is    *)
(* exact in integers; distances are compared squared and in doubled units. *)
(***************************************************************************)
EXTENDS Integers, Sequences, FiniteSets, TLC

VARIABLES
    clock,               \* the latest Date.now() reading
    pigPositionHistory,  \* Map<number, Array<{x, y, timestamp}>>
    lastAlertTime,       \* Map<string, number>
    hederaClient,        \* the cached ledger client, or NULL
    env,                 \* process.env: which of the ledger settings parse
    pc,                  \* where the POST call in flight stands
    body,                \* the call's request body, as far as POST reads it
    expected_pig_count,  \* the call's expected count (body field, default 2)
    data,                \* the detector's JSON answer of the call
    alerts,              \* the Alert[] detectAlerts returned to the call
    submissions,         \* one logToHedera promise per alert
    settled,             \* the promises that have resolved, in the order they did
    cancelled,           \* whether the caller aborted the call, and what was pending
    response,            \* what the call returned to its caller
    frames,              \* the number of POST calls accepted so far
    feed,                \* the inputs this run draws from
    lastFired,           \* per alert key, the time of the latest alert returned
    isStreaming,         \* per component instance: its isStreaming state
    intervalRef,         \* per component instance: intervalRef.current
    frameIdRef,          \* per component instance: frameIdRef.current
    due,                 \* per component instance: its active intervals and when each fires next
    starting,            \* per component instance: the starts awaiting their video
    calls,               \* the POST calls of the components not yet consumed
    feedTables,          \* per component instance: the maps its feed alone makes
    health,              \* what the latest GET call returned to its caller
    lastMismatch,        \* the latest count_mismatch alert returned
    clientAlerts,        \* per component instance: its alerts state
    hederaReceipts       \* per component instance: its hederaReceipts state

vars == <<clock, pigPositionHistory, lastAlertTime, hederaClient, env, pc,
          body, expected_pig_count, data, alerts, submissions, settled, cancelled,
          response, frames, feed, lastFired,
          isStreaming, intervalRef, frameIdRef, due, starting, calls, feedTables, health,
          lastMismatch, clientAlerts, hederaReceipts>>

(***************************************************************************)
(* Program constants                                                       *)
(***************************************************************************)
COOLDOWN_MS == 30000
WINDOW_MS == 15000
MIN_SAMPLES == 5
MOVE_THRESHOLD == 50
DEFAULT_EXPECTED == 2
INTERVAL_MS == 1000
LIST_LIMIT == 50

(***************************************************************************)
(* Bounds of the model: the number of POST calls of a short and of a long  *)
(* feed                                                                    *)
(***************************************************************************)
MaxFrames == 3
SteadyFrames == 6
\* The seconds a run of the component instances lasts.
MaxSeconds == 2
\* The POST calls the component instances make in a run.
MaxCalls == 2
\* The intervals one component instance has running or is about to create.
MaxIntervals == 2
\* The answers with alerts a component instance receives.
MaxAnswers == 4

NULL == "null"
\* An absent optional number (track_id?, pig_id?, expected_count?, ...).
UNDEFINED == -1

\* Bounding boxes {x, y, width, height}: BoxA has center (5.5, 5), BoxB has
\* center (35.5, 45), exactly 50 from BoxA's, and BoxC has center (35.5, 44),
\* less than 50 from BoxA's.
BoxA == [x |-> 0,  y |-> 0,  width |-> 11, height |-> 10]
BoxB == [x |-> 28, y |-> 40, width |-> 15, height |-> 10]
BoxC == [x |-> 30, y |-> 39, width |-> 11, height |-> 10]
\* A box no detector should report: its width is negative.
BoxNegative == [x |-> 0, y |-> 0, width |-> -11, height |-> 10]

\* The elements a detections array can hold: a Detection, or null.
Det(trackId, box) ==
    [kind |-> "detection", track_id |-> trackId,
     x |-> box.x, y |-> box.y, width |-> box.width, height |-> box.height]
NullElement ==
    [kind |-> "null", track_id |-> UNDEFINED, x |-> 0, y |-> 0, width |-> 0, height |-> 0]

(***************************************************************************)
(* Map<K, V> as a function whose domain is the set of keys present         *)
(***************************************************************************)
EmptyMap == [k \in {} |-> NULL]
MapHas(m, k) == k \in DOMAIN m
MapSet(m, k, v) == [j \in (DOMAIN m) \cup {k} |-> IF j = k THEN v ELSE m[j]]

\* lastAlertTime.get(alertKey) || 0
LastAlert(last, alertKey) ==
    IF MapHas(last, alertKey) /\ last[alertKey] # 0 THEN last[alertKey] ELSE 0

\* Mutant: the cooldown ends at 30000 ms instead of after it.
CooldownElapsedInclusive(currentTime, lastAlert) == currentTime - lastAlert >= COOLDOWN_MS

\* currentTime - lastAlert > 30000
CooldownElapsed(currentTime, lastAlert) == currentTime - lastAlert > COOLDOWN_MS

\* Mutant: one cooldown key for all tracks.
InactivityKeyShared(trackId) == "inactivity"

\* `inactivity_${trackId}`
InactivityKey(trackId) == "inactivity_" \o ToString(trackId)
CountKey == "count_mismatch"

(***************************************************************************)
(* detectAlerts                                                            *)
(***************************************************************************)
\* The value detectAlerts receives as `detections`: an array, or (from a
\* malformed answer) an object that is no array.
ArrayOf(items) == [kind |-> "array", items |-> items]
NonArray == [kind |-> "object", items |-> <<>>]

\* detections.length (undefined on an object that is no array)
Length(detections) ==
    IF detections.kind = "array" THEN Len(detections.items) ELSE UNDEFINED

\* Mutant: a count that equals the expected count is a mismatch too.
CountMismatchOrEqual(detections, expectedCount) == Length(detections) <= expectedCount

\* detections.length !== expectedCount
CountMismatch(detections, expectedCount) == Length(detections) # expectedCount

\* Mutant: the two risk texts are exchanged.
CountMismatchAlertSwapped(detections, expectedCount, currentTime) ==
    [alert_type |-> "count_mismatch",
     severity |-> "high",
     timestamp |-> currentTime,
     pig_id |-> UNDEFINED,
     expected_count |-> expectedCount,
     detected_count |-> Length(detections),
     risk |-> IF Length(detections) # UNDEFINED /\ Length(detections) < expectedCount
              THEN "Extra pig detected - unauthorized entry"
              ELSE "Missing pig - possibly sick and hiding",
     action |-> "Perform physical headcount immediately"]

CountMismatchAlert(detections, expectedCount, currentTime) ==
    [alert_type |-> "count_mismatch",
     severity |-> "high",
     timestamp |-> currentTime,
     pig_id |-> UNDEFINED,
     expected_count |-> expectedCount,
     detected_count |-> Length(detections),
     risk |-> IF Length(detections) # UNDEFINED /\ Length(detections) < expectedCount
              THEN "Missing pig - possibly sick and hiding"
              ELSE "Extra pig detected - unauthorized entry",
     action |-> "Perform physical headcount immediately"]

InactivityAlert(trackId, currentTime) ==
    [alert_type |-> "inactivity_alert",
     severity |-> "medium",
     timestamp |-> currentTime,
     pig_id |-> trackId,
     expected_count |-> UNDEFINED,
     detected_count |-> UNDEFINED,
     risk |-> "Lethargy detected - possible illness or fever",
     action |-> "Check pig temperature and monitor closely"]

\* Mutant: one cooldown key per direction of the mismatch.
CountMismatchBlockByDirection(st, detections, expectedCount, currentTime) ==
    LET key == IF Length(detections) < expectedCount
               THEN "count_mismatch_missing" ELSE "count_mismatch_extra"
    IN  IF CountMismatch(detections, expectedCount)
           /\ CooldownElapsed(currentTime, LastAlert(st.last, key))
        THEN [st EXCEPT
                !.alerts = Append(@, CountMismatchAlert(detections, expectedCount, currentTime)),
                !.last = MapSet(@, key, currentTime)]
        ELSE st

\* ALERT 1: the state after the count-mismatch block.
CountMismatchBlock(st, detections, expectedCount, currentTime) ==
    IF CountMismatch(detections, expectedCount)
       /\ CooldownElapsed(currentTime, LastAlert(st.last, CountKey))
    THEN [st EXCEPT
            !.alerts = Append(@, CountMismatchAlert(detections, expectedCount, currentTime)),
            !.last = MapSet(@, CountKey, currentTime)]
    ELSE st

\* if (!trackId) return
Untracked(detection) == detection.track_id = UNDEFINED \/ detection.track_id = 0

\* {x: centerX, y: centerY, timestamp: currentTime}, coordinates doubled
Position(detection, currentTime) ==
    [x2 |-> 2 * detection.x + detection.width,
     y2 |-> 2 * detection.y + detection.height,
     timestamp |-> currentTime]

\* Mutant: no sample is ever evicted.
InWindowForever(currentTime, p) == p.timestamp <= currentTime \/ p.timestamp > currentTime

\* currentTime - p.timestamp < 15000
InWindow(currentTime, p) == currentTime - p.timestamp < WINDOW_MS

RecentHistory(history, currentTime) ==
    SelectSeq(history, LAMBDA p : InWindow(currentTime, p))

\* recentHistory.length >= 5
EnoughHistory(recentHistory) == Len(recentHistory) >= MIN_SAMPLES

\* The square of twice the distance between two stored positions.
Distance2Sq(firstPos, lastPos) ==
    (lastPos.x2 - firstPos.x2) * (lastPos.x2 - firstPos.x2)
    + (lastPos.y2 - firstPos.y2) * (lastPos.y2 - firstPos.y2)

\* Mutant: a movement of exactly 50 counts as inactivity.
MovedAtMostThreshold(firstPos, lastPos) ==
    Distance2Sq(firstPos, lastPos) <= (2 * MOVE_THRESHOLD) * (2 * MOVE_THRESHOLD)

\* Math.sqrt(dx^2 + dy^2) < 50
MovedLessThanThreshold(firstPos, lastPos) ==
    Distance2Sq(firstPos, lastPos) < (2 * MOVE_THRESHOLD) * (2 * MOVE_THRESHOLD)

\* Mutant: every sample of the window is compared with the oldest.
InactiveThroughout(recentHistory) ==
    /\ EnoughHistory(recentHistory)
    /\ \A m \in 1..Len(recentHistory) :
          MovedLessThanThreshold(recentHistory[1], recentHistory[m])

\* recentHistory.length >= 5 && distance < 50
Inactive(recentHistory) ==
    /\ EnoughHistory(recentHistory)
    /\ MovedLessThanThreshold(recentHistory[1], recentHistory[Len(recentHistory)])

\* ALERT 2: the body of detections.forEach for one tracked detection.
TrackDetection(st, detection, currentTime) ==
    LET trackId == detection.track_id
        history == IF MapHas(st.hist, trackId) THEN st.hist[trackId] ELSE <<>>
        recentHistory ==
            RecentHistory(Append(history, Position(detection, currentTime)), currentTime)
        alertKey == InactivityKey(trackId)
        st1 == [st EXCEPT !.hist = MapSet(@, trackId, recentHistory)]
    IN  IF Inactive(recentHistory)
           /\ CooldownElapsed(currentTime, LastAlert(st1.last, alertKey))
        THEN [st1 EXCEPT
                !.alerts = Append(@, InactivityAlert(trackId, currentTime)),
                !.last = MapSet(@, alertKey, currentTime)]
        ELSE st1

\* detections.forEach(...): a null element, or a value that has no forEach,
\* throws a TypeError; what was written before the throw stays written.
RECURSIVE ForEachDetection(_, _, _, _)
ForEachDetection(st, items, i, currentTime) ==
    IF i > Len(items) THEN st
    ELSE IF items[i].kind = "null" THEN [st EXCEPT !.threw = TRUE]
    ELSE IF Untracked(items[i]) THEN ForEachDetection(st, items, i + 1, currentTime)
    ELSE ForEachDetection(TrackDetection(st, items[i], currentTime), items, i + 1, currentTime)

\* Mutant: the count rule runs after the inactivity rule.
detectAlertsCountLast(detections, expectedCount, currentTime, hist, last) ==
    LET st0 == [alerts |-> <<>>, hist |-> hist, last |-> last, threw |-> FALSE]
        st1 == IF detections.kind # "array" THEN [st0 EXCEPT !.threw = TRUE]
               ELSE ForEachDetection(st0, detections.items, 1, currentTime)
    IN  IF st1.threw THEN st1
        ELSE CountMismatchBlock(st1, detections, expectedCount, currentTime)

\* detectAlerts(detections, expectedCount) run at Date.now() = currentTime on
\* the maps hist and last: the alerts returned, the maps afterwards, and
\* whether the call threw instead of returning.
detectAlerts(detections, expectedCount, currentTime, hist, last) ==
    LET st0 == [alerts |-> <<>>, hist |-> hist, last |-> last, threw |-> FALSE]
        st1 == CountMismatchBlock(st0, detections, expectedCount, currentTime)
    IN  IF detections.kind # "array" THEN [st1 EXCEPT !.threw = TRUE]
        ELSE ForEachDetection(st1, detections.items, 1, currentTime)

(***************************************************************************)
(* logToHedera                                                             *)
(***************************************************************************)
\* process.env: the ledger settings all parse, or HEDERA_ACCOUNT_ID /
\* HEDERA_PRIVATE_KEY do not (getHederaClient throws), or HEDERA_TOPIC_ID
\* does not (TopicId.fromString throws).
Envs == {"ok", "bad_operator", "bad_topic"}

\* getHederaClient(): the client it returns (and caches), or a throw.
GetHederaClientThrows(client, e) == client = NULL /\ e = "bad_operator"
GetHederaClient(client, e) ==
    IF client # NULL THEN client
    ELSE IF e = "bad_operator" THEN NULL
    ELSE "client"

\* The sequence numbers the ledger may answer with.
SequenceNumbers == {1, 2}

\* return {success: true, topic_id, sequence}
SuccessReceipt(seq) == [success |-> TRUE, sequence |-> seq, error |-> "none"]
\* catch (error): return {success: false, error}
FailureReceipt(message) == [success |-> FALSE, sequence |-> UNDEFINED, error |-> message]

\* Mutant: a submission that failed is submitted again.
Resubmitted(message) == [stage |-> "execute", threw |-> FALSE, receipt |-> FailureReceipt("pending")]

\* One logToHedera(alert) promise: awaiting transaction.execute ("execute"),
\* awaiting response.getReceipt ("receipt"), or settled ("done").  threw
\* tells whether a call inside the try block threw; receipt is what the
\* promise resolved with.
Pending(stage) == [stage |-> stage, threw |-> FALSE, receipt |-> FailureReceipt("pending")]
Returned(seq) == [stage |-> "done", threw |-> FALSE, receipt |-> SuccessReceipt(seq)]
Caught(message) == [stage |-> "done", threw |-> TRUE, receipt |-> FailureReceipt(message)]

\* logToHedera up to its first await, for the alerts in order: the promises
\* and the client cache afterwards.
RECURSIVE StartLogging(_, _, _, _)
StartLogging(n, client, e, acc) ==
    IF n = 0 THEN [submissions |-> acc, client |-> client]
    ELSE IF GetHederaClientThrows(client, e)
         THEN StartLogging(n - 1, client, e,
                           Append(acc, Caught("invalid operator")))
    ELSE IF e = "bad_topic"
         THEN StartLogging(n - 1, GetHederaClient(client, e), e,
                           Append(acc, Caught("invalid topic")))
    ELSE StartLogging(n - 1, GetHederaClient(client, e), e,
                      Append(acc, Pending("execute")))

(***************************************************************************)
(* POST                                                                    *)
(***************************************************************************)
\* The parsed request body: its expected_pig_count field (UNDEFINED when the
\* body has none).  No call in flight: NoBody.
NoBody == [expected_pig_count |-> UNDEFINED]
Body(expected) == [expected_pig_count |-> expected]

NoResponse == [status |-> 0, error |-> "none", alerts |-> <<>>, alert_count |-> 0,
               hedera_receipts |-> <<>>]
ErrorResponse(status, error) ==
    [status |-> status, error |-> error, alerts |-> <<>>, alert_count |-> 0,
     hedera_receipts |-> <<>>]
\* Mutant: a frame without alerts is answered as an error.
SuccessResponseUnlessEmpty(as, receipts) ==
    IF as = <<>> THEN ErrorResponse(500, "no alerts")
    ELSE [status |-> 200, error |-> "none", alerts |-> as, alert_count |-> Len(as),
          hedera_receipts |-> receipts]

\* NextResponse.json({...data, alerts, alert_count, hedera_receipts, hedera_enabled})
SuccessResponse(as, receipts) ==
    [status |-> 200, error |-> "none", alerts |-> as, alert_count |-> Len(as),
     hedera_receipts |-> receipts]

\* The detector's parsed answer: an object whose detections field is an
\* array, JSON null, an object with no detections field, or an object whose
\* detections field is an object that is no array.
NoData == [kind |-> "none", detections |-> ArrayOf(<<>>)]
Answer(items) == [kind |-> "object", detections |-> ArrayOf(items)]
NullAnswer == [kind |-> "null", detections |-> ArrayOf(<<>>)]
NoDetectionsField ==
    [kind |-> "object", detections |-> [kind |-> "undefined", items |-> <<>>]]
NonArrayAnswer == [kind |-> "object", detections |-> NonArray]

\* data.detections || []
DetectionsOrEmpty(d) ==
    IF d.detections.kind = "undefined" THEN ArrayOf(<<>>) ELSE d.detections

(***************************************************************************)
(* The feeds: what a run's caller, clock, detector and environment supply. *)
(* start is Date.now() when the server starts, steps the time between two  *)
(* readings, expected the body's expected_pig_count values (UNDEFINED: the *)
(* field is missing), answers the detector's answers, frames the number of *)
(* POST calls.                                                             *)
(***************************************************************************)
Untracked1 == Det(UNDEFINED, BoxA)
Repeat5(d) == <<d, d, d, d, d>>

\* Few frames; every clock case, count case and malformed answer.
ShortFeed(start) ==
    [start |-> start, env |-> "ok", frames |-> MaxFrames,
     steps |-> {3750, 30000, 30001},
     expected |-> {1, 2, UNDEFINED},
     answers |-> {Answer(<<>>), Answer(<<Untracked1>>),
                  Answer(<<Det(0, BoxA), Det(UNDEFINED, BoxB)>>),
                  Answer(<<Det(1, BoxA)>>),
                  NullAnswer, NoDetectionsField, NonArrayAnswer,
                  Answer(<<NullElement>>),
                  Answer(<<Det(1, BoxA), NullElement>>)}]

\* Few frames with up to three alerts each, under every environment.
LedgerFeed(e) ==
    [start |-> 100000, env |-> e, frames |-> MaxFrames,
     steps |-> {30001},
     expected |-> {2},
     answers |-> {Answer(<<Untracked1, Untracked1>>),
                  Answer(<<Untracked1>>),
                  Answer(Repeat5(Det(1, BoxA))),
                  Answer(Repeat5(Det(1, BoxA)) \o Repeat5(Det(2, BoxA)))}]

\* One pig seen (or not) every period milliseconds.
OnePigFeed(period) ==
    [start |-> 100000, env |-> "ok", frames |-> SteadyFrames,
     steps |-> {period},
     expected |-> {1},
     answers |-> {Answer(<<>>), Answer(<<Det(1, BoxA)>>),
                  Answer(<<Det(1, BoxB)>>), Answer(<<Det(1, BoxC)>>)}]

\* Two pigs, one of them sitting still.
TwoPigsFeed ==
    [start |-> 100000, env |-> "ok", frames |-> SteadyFrames,
     steps |-> {3000},
     expected |-> {2},
     answers |-> {Answer(<<Det(1, BoxA), Det(2, BoxA)>>),
                  Answer(<<Det(1, BoxA), Det(2, BoxB)>>),
                  Answer(<<Det(1, BoxA)>>), Answer(<<Det(2, BoxA)>>)}]

\* One sitting pig, reported up to five times per frame, with pauses.
PausedFeed ==
    [start |-> 100000, env |-> "ok", frames |-> SteadyFrames,
     steps |-> {3000, 30000},
     expected |-> {1},
     answers |-> {Answer(Repeat5(Det(1, BoxA))), Answer(<<Det(1, BoxA)>>)}]

\* A detector that reports boxes of negative width.
BadBoxFeed ==
    [start |-> 100000, env |-> "ok", frames |-> MaxFrames,
     steps |-> {3000},
     expected |-> {1, UNDEFINED},
     answers |-> {Answer(<<Det(1, BoxNegative)>>),
                  Answer(Repeat5(Det(1, BoxNegative))),
                  Answer(<<Det(1, BoxA)>>)}]

\* The same count mismatch in every frame: no pig seen, one expected.
MismatchFeed(start) ==
    [start |-> start, env |-> "ok", frames |-> MaxFrames,
     steps |-> {3750, 30000, 30001},
     expected |-> {1},
     answers |-> {Answer(<<>>)}]

\* One sitting pig under a wall clock that is set back between two frames.
SkewFeed ==
    [start |-> 100000, env |-> "ok", frames |-> MaxFrames,
     steps |-> {3000, -3000},
     expected |-> {1},
     answers |-> {Answer(<<Det(1, BoxA)>>)}]

\* Two sitting pigs whose detections come interleaved or track 2 first.
OrderFeed ==
    [start |-> 100000, env |-> "ok", frames |-> MaxFrames,
     steps |-> {30001},
     expected |-> {2},
     answers |-> {Answer(Repeat5(Det(2, BoxA)) \o Repeat5(Det(1, BoxA))),
                  Answer(<<Det(2, BoxA), Det(1, BoxA), Det(2, BoxA), Det(1, BoxA),
                           Det(2, BoxA), Det(1, BoxA), Det(2, BoxA), Det(1, BoxA),
                           Det(1, BoxA), Det(2, BoxA)>>)}]

Feeds ==
    {ShortFeed(0), ShortFeed(100000)}
    \cup {MismatchFeed(0), MismatchFeed(100000)}
    \cup {LedgerFeed(e) : e \in Envs}
    \cup {OnePigFeed(3000), OnePigFeed(3750), TwoPigsFeed, PausedFeed}
    \cup {BadBoxFeed, SkewFeed, OrderFeed}

\* The key under which an alert counts as fired.
FiredKey(alert) ==
    IF alert.alert_type = "count_mismatch" THEN "count_mismatch"
    ELSE "inactivity_" \o ToString(alert.pig_id)

RECURSIVE RecordFired(_, _, _)
RecordFired(fired, as, currentTime) ==
    IF as = <<>> THEN fired
    ELSE RecordFired(MapSet(fired, FiredKey(Head(as)), currentTime), Tail(as), currentTime)

\* The JSON a GET call returns: NoHealth while none has returned.
NoHealth == [status |-> 0, hedera |-> "none"]
HealthOk(hederaStatus) == [status |-> 200, hedera |-> hederaStatus]
HealthError == [status |-> 503, hedera |-> "none"]

\* The feeds whose caller also asks for the route's health.
ProbedFeeds == {ShortFeed(100000)} \cup {LedgerFeed(e) : e \in Envs}

\* No alert: the value of lastMismatch before the first count_mismatch alert.
NoAlert ==
    [alert_type |-> "none", severity |-> "none", timestamp |-> UNDEFINED,
     pig_id |-> UNDEFINED, expected_count |-> UNDEFINED, detected_count |-> UNDEFINED,
     risk |-> "none", action |-> "none"]

\* The latest count_mismatch alert once the alerts `as` are returned.
LatestMismatch(prev, as) ==
    LET found == SelectSeq(as, LAMBDA a : a.alert_type = "count_mismatch")
    IN  IF found = <<>> THEN prev ELSE found[Len(found)]

\* The component instances (browser tabs) that call the route.
Clients == {"A", "B"}

\* useRef<NodeJS.Timeout | null>(null); interval ids are 1, 2, ...
NoInterval == 0

\* The caller has not aborted the call.
NotCancelled == [aborted |-> FALSE, pending |-> {}]

\* The two maps as one feed alone would fill them, from its latest start.
NoTables == [hist |-> EmptyMap, last |-> EmptyMap]

\* The module is loaded and the components are mounted.
Loaded ==
    /\ clock = feed.start
    /\ env = feed.env
    /\ pigPositionHistory = EmptyMap
    /\ lastAlertTime = EmptyMap
    /\ lastFired = EmptyMap
    /\ hederaClient = NULL
    /\ pc = "idle"
    /\ body = NoBody
    /\ expected_pig_count = DEFAULT_EXPECTED
    /\ data = NoData
    /\ alerts = <<>>
    /\ submissions = <<>>
    /\ settled = <<>>
    /\ cancelled = NotCancelled
    /\ response = NoResponse
    /\ frames = 0
    /\ isStreaming = [c \in Clients |-> FALSE]
    /\ intervalRef = [c \in Clients |-> NoInterval]
    /\ frameIdRef = [c \in Clients |-> 0]
    /\ due = [c \in Clients |-> EmptyMap]
    /\ starting = [c \in Clients |-> 0]
    /\ calls = <<>>
    /\ feedTables = [c \in Clients |-> NoTables]
    /\ health = NoHealth
    /\ lastMismatch = NoAlert
    /\ clientAlerts = [c \in Clients |-> <<>>]
    /\ hederaReceipts = [c \in Clients |-> <<>>]

Init ==
    /\ feed \in Feeds
    /\ Loaded

listVars == <<clientAlerts, hederaReceipts>>
clientVars == <<isStreaming, intervalRef, frameIdRef, due, starting, calls, feedTables,
               listVars>>
callVars == <<body, expected_pig_count, data, alerts, submissions, settled, cancelled>>
storeVars == <<pigPositionHistory, lastAlertTime>>
firedVars == <<lastFired, lastMismatch>>
fixedVars == <<feed, env, frames, clientVars, health>>

\* const { ..., expected_pig_count = 2 } = body
ExpectedPigCount(b) ==
    IF b.expected_pig_count = UNDEFINED THEN DEFAULT_EXPECTED ELSE b.expected_pig_count

\* POST is called: request.json(), the destructuring with its default, and
\* the fetch to the detector is sent.
PostRequest ==
    /\ pc = "idle"
    /\ frames < feed.frames
    /\ \E e \in feed.expected :
          /\ body' = Body(e)
          /\ expected_pig_count' = ExpectedPigCount(Body(e))
    /\ pc' = "fetching"
    /\ frames' = frames + 1
    /\ response' = NoResponse
    /\ UNCHANGED <<feed, env, clientVars, health, clock, storeVars, firedVars, hederaClient,
                   data, alerts, submissions, settled, cancelled>>

\* catch (error): the 500 response.
Catch ==
    /\ response' = ErrorResponse(500, "Internal server error")
    /\ pc' = "responded"

\* POST is called with a body that is no JSON: request.json() rejects.
RequestThrows ==
    /\ pc = "idle"
    /\ frames < feed.frames
    /\ frames' = frames + 1
    /\ Catch
    /\ UNCHANGED <<feed, env, clientVars, health, clock, storeVars, firedVars, hederaClient,
                   callVars>>

\* fetch rejects (the detector does not respond) or response.json() throws.
FetchThrows ==
    /\ pc = "fetching"
    /\ Catch
    /\ UNCHANGED <<fixedVars, clock, storeVars, firedVars, hederaClient, callVars>>

\* if (!response.ok)
BackendNotOk ==
    /\ pc = "fetching"
    /\ \E status \in {404, 503} :
          response' = ErrorResponse(status, "Backend processing failed")
    /\ pc' = "responded"
    /\ UNCHANGED <<fixedVars, clock, storeVars, firedVars, hederaClient, callVars>>

\* The detector answers JSON null: data.detections throws.
BackendAnswersNull ==
    /\ pc = "fetching"
    /\ NullAnswer \in feed.answers
    /\ data' = NullAnswer
    /\ Catch
    /\ UNCHANGED <<fixedVars, clock, storeVars, firedVars, hederaClient,
                   body, expected_pig_count, alerts, submissions, settled, cancelled>>

\* The promises that resolve before the first await of any: those whose
\* logToHedera threw at getHederaClient or TopicId.fromString, in call order.
ResolvedAtStart(subs) ==
    SelectSeq([i \in 1..Len(subs) |-> i], LAMBDA i : subs[i].stage = "done")

\* The detector answers an object: detectAlerts runs at the next Date.now()
\* reading, and logToHedera is started for every alert it returned.
BackendAnswers ==
    /\ pc = "fetching"
    /\ \E d \in feed.answers \ {NullAnswer}, step \in feed.steps :
          LET r == detectAlerts(DetectionsOrEmpty(d), expected_pig_count,
                                clock + step, pigPositionHistory, lastAlertTime)
              started == StartLogging(Len(r.alerts), hederaClient, env, <<>>)
          IN  /\ data' = d
              /\ clock' = clock + step
              /\ pigPositionHistory' = r.hist
              /\ lastAlertTime' = r.last
              /\ IF r.threw
                 THEN /\ Catch
                      /\ UNCHANGED <<firedVars, hederaClient, alerts, submissions, settled>>
                 ELSE /\ alerts' = r.alerts
                      /\ lastFired' = RecordFired(lastFired, r.alerts, clock + step)
                      /\ lastMismatch' = LatestMismatch(lastMismatch, r.alerts)
                      /\ submissions' = started.submissions
                      /\ settled' = ResolvedAtStart(started.submissions)
                      /\ hederaClient' = started.client
                      /\ pc' = "logging"
                      /\ UNCHANGED response
    /\ UNCHANGED <<fixedVars, body, expected_pig_count, cancelled>>

SetSubmission(i, sub) ==
    /\ submissions' = [submissions EXCEPT ![i] = sub]
    /\ settled' = IF sub.stage = "done" THEN Append(settled, i) ELSE settled
ledgerFrame == <<fixedVars, clock, storeVars, firedVars, hederaClient, pc,
                 body, expected_pig_count, data, alerts, response, cancelled>>

\* await transaction.execute(client) resolves.
ExecuteResolves ==
    /\ pc = "logging"
    /\ \E i \in 1..Len(submissions) :
          /\ submissions[i].stage = "execute"
          /\ SetSubmission(i, Pending("receipt"))
    /\ UNCHANGED ledgerFrame

\* await response.getReceipt(client) resolves: the success receipt.
ReceiptResolves ==
    /\ pc = "logging"
    /\ \E i \in 1..Len(submissions), seq \in SequenceNumbers :
          /\ submissions[i].stage = "receipt"
          /\ SetSubmission(i, Returned(seq))
    /\ UNCHANGED ledgerFrame

\* Either await rejects: the catch block's failure receipt.
LedgerRejects ==
    /\ pc = "logging"
    /\ \E i \in 1..Len(submissions) :
          /\ submissions[i].stage \in {"execute", "receipt"}
          /\ SetSubmission(i, Caught("ledger error"))
    /\ UNCHANGED ledgerFrame

\* The caller aborts the request while the handler awaits the ledger.  The
\* handler never reads request.signal: nothing of the call changes.
RequestCancelled ==
    /\ pc = "logging"
    /\ ~cancelled.aborted
    /\ \E i \in 1..Len(submissions) : submissions[i].stage # "done"
    /\ cancelled' = [aborted |-> TRUE,
                     pending |-> {i \in 1..Len(submissions) : submissions[i].stage # "done"}]
    /\ UNCHANGED <<fixedVars, clock, storeVars, firedVars, hederaClient, pc, body,
                   expected_pig_count, data, alerts, submissions, settled, response>>

\* Mutant: the join ends at the first failure.
SettledOrFailed(subs) ==
    \/ \A i \in 1..Len(subs) : subs[i].stage = "done"
    \/ \E i \in 1..Len(subs) : subs[i].stage = "done" /\ subs[i].threw

\* Promise.all: every promise has resolved.
AllSettled(subs) == \A i \in 1..Len(subs) : subs[i].stage = "done"

\* Mutant: only the receipts of the submissions that succeeded.
SuccessfulReceipts(subs) ==
    SelectSeq([i \in 1..Len(subs) |-> subs[i].receipt], LAMBDA r : r.success)

\* Mutant: the receipts in the order the promises resolved.
ReceiptsAsResolved(subs) ==
    [i \in 1..Len(settled) |-> subs[settled[i]].receipt]

\* hederaReceipts: the promises' values, in the order of the alerts.
Receipts(subs) == [i \in 1..Len(subs) |-> subs[i].receipt]

\* Promise.all resolves once every promise has: the 200 response.
PostReturns ==
    /\ pc = "logging"
    /\ AllSettled(submissions)
    /\ response' = SuccessResponse(alerts, Receipts(submissions))
    /\ pc' = "responded"
    /\ UNCHANGED <<fixedVars, clock, storeVars, firedVars, hederaClient, callVars>>

\* The caller has the response; the call's locals are gone.
Complete ==
    /\ pc = "responded"
    /\ pc' = "idle"
    /\ body' = NoBody
    /\ expected_pig_count' = DEFAULT_EXPECTED
    /\ data' = NoData
    /\ alerts' = <<>>
    /\ submissions' = <<>>
    /\ settled' = <<>>
    /\ cancelled' = NotCancelled
    /\ response' = NoResponse
    /\ UNCHANGED <<fixedVars, clock, storeVars, firedVars, hederaClient>>

\* try { getHederaClient(); hederaStatus = 'connected' } catch { 'error' }
\* (HEDERA_ACCOUNT_ID and HEDERA_TOPIC_ID are set in every environment here)
HederaStatus(client, e) ==
    IF GetHederaClientThrows(client, e) THEN "error" ELSE "connected"

\* Mutant: a health check drops the cooldown entries.
GetHealthClearing ==
    /\ feed \in ProbedFeeds
    /\ health' = HealthOk(HederaStatus(hederaClient, env))
    /\ hederaClient' = GetHederaClient(hederaClient, env)
    /\ lastAlertTime' = EmptyMap
    /\ UNCHANGED <<feed, env, frames, clientVars, clock, pigPositionHistory, firedVars, pc,
                   callVars, response>>

\* GET is called, at any moment of a POST call or between two: the health
\* fetch fails (503), or it succeeds and getHederaClient() is tried, which
\* caches the client.
GetHealth ==
    /\ feed \in ProbedFeeds
    /\ \/ /\ health' = HealthError
          /\ UNCHANGED hederaClient
       \/ /\ health' = HealthOk(HederaStatus(hederaClient, env))
          /\ hederaClient' = GetHederaClient(hederaClient, env)
    /\ UNCHANGED <<feed, env, frames, clientVars, clock, storeVars, firedVars, pc,
                   callVars, response>>

Next ==
    \/ PostRequest
    \/ RequestThrows
    \/ FetchThrows
    \/ BackendNotOk
    \/ BackendAnswersNull
    \/ BackendAnswers
    \/ ExecuteResolves
    \/ ReceiptResolves
    \/ LedgerRejects
    \/ RequestCancelled
    \/ PostReturns
    \/ Complete
    \/ GetHealth

Spec == Init /\ [][Next]_vars

\* The handler's own continuations run when they can; the detector and the
\* ledger answer or never do.
FairSpec == Spec /\ WF_vars(PostReturns) /\ WF_vars(Complete)

(***************************************************************************)
(* The LivePigDetection component and the calls it makes.  Each instance   *)
(* runs startDetection's interval callback every INTERVAL_MS; the callback *)
(* posts a frame and awaits the answer, and the timer does not wait for    *)
(* it.  Every call runs the POST handler on the module's own maps.         *)
(***************************************************************************)
\* What the instances post and what the detector answers them; clients are
\* the instances mounted and starts the starts a user of one has pending or
\* running at a time.  Two instances whose users start once and wait.
ClientFeed ==
    [start |-> 100000, env |-> "ok", frames |-> 0,
     steps |-> {INTERVAL_MS},
     expected |-> {DEFAULT_EXPECTED},
     answers |-> {Answer(<<Det(1, BoxA), Det(2, BoxB)>>), Answer(<<Det(1, BoxA)>>)},
     clients |-> Clients, starts |-> 1]

\* One instance whose user starts again while a start is pending.
StreamFeed ==
    [start |-> 100000, env |-> "ok", frames |-> 0,
     steps |-> {INTERVAL_MS},
     expected |-> {DEFAULT_EXPECTED},
     answers |-> {Answer(<<Det(1, BoxA)>>)},
     clients |-> {"A"}, starts |-> MaxIntervals]

ClientFeeds == {ClientFeed, StreamFeed}

ClientInit ==
    /\ feed \in ClientFeeds
    /\ Loaded

\* A POST call of an instance: the body it sent, where its handler stands
\* ("fetching", "logging", "responded"), and the handler's locals; the call
\* is gone once the callback has consumed the answer.  at is the Date.now()
\* reading of its detectAlerts call, alone the alerts that call returns on
\* the maps of its own feed.
NewCall(c, frameId, expected) ==
    [client |-> c, frame_id |-> frameId, expected_pig_count |-> expected,
     pc |-> "fetching", at |-> UNDEFINED, data |-> NoData, alerts |-> <<>>,
     alone |-> <<>>, submissions |-> <<>>, response |-> NoResponse]

\* The frames the instances have posted.
RECURSIVE Posted(_, _)
Posted(ref, cs) ==
    IF cs = {} THEN 0
    ELSE LET c == CHOOSE x \in cs : TRUE IN ref[c] + Posted(ref, cs \ {c})

\* The calls without call k.
Without(cs, k) == [i \in 1..(Len(cs) - 1) |-> IF i < k THEN cs[i] ELSE cs[i + 1]]

singleCallVars == <<feed, env, frames, pc, callVars, response, firedVars, health>>

\* The id setInterval returns: one that no active interval has and that
\* intervalRef does not hold.
NewInterval(table, ref) ==
    CHOOSE id \in 1..(Cardinality(DOMAIN table) + 2) :
        id \notin DOMAIN table /\ id # ref

\* clearInterval(id): a no-op for an id that is not active.
ClearInterval(table, id) == [j \in (DOMAIN table) \ {id} |-> table[j]]

\* The intervals a component has active or is about to create.
Intervals(c) == Cardinality(DOMAIN due[c]) + starting[c]

\* startCamera / handleVideoUpload is called: the Start button and the file
\* input are rendered while isStreaming is false, which it stays until
\* getUserMedia resolves (the video's metadata is loaded).
StartCamera(c) ==
    /\ ~isStreaming[c]
    /\ Intervals(c) < feed.starts
    /\ starting' = [starting EXCEPT ![c] = @ + 1]
    /\ UNCHANGED <<singleCallVars, listVars, clock, storeVars, hederaClient, isStreaming,
                   intervalRef, frameIdRef, due, calls, feedTables>>

\* getUserMedia rejects: the catch block.
CameraDenied(c) ==
    /\ starting[c] > 0
    /\ starting' = [starting EXCEPT ![c] = @ - 1]
    /\ UNCHANGED <<singleCallVars, listVars, clock, storeVars, hederaClient, isStreaming,
                   intervalRef, frameIdRef, due, calls, feedTables>>

\* getUserMedia resolves (onloadedmetadata fires): setIsStreaming(true);
\* startDetection(), which stores the new interval's id in intervalRef
\* whatever the ref held.
StartDetection(c) ==
    /\ starting[c] > 0
    /\ starting' = [starting EXCEPT ![c] = @ - 1]
    /\ isStreaming' = [isStreaming EXCEPT ![c] = TRUE]
    /\ LET id == NewInterval(due[c], intervalRef[c])
       IN  /\ intervalRef' = [intervalRef EXCEPT ![c] = id]
           /\ due' = [due EXCEPT ![c] = MapSet(@, id, clock + INTERVAL_MS)]
    /\ feedTables' = [feedTables EXCEPT
                         ![c] = IF isStreaming[c] THEN @ ELSE NoTables]
    /\ UNCHANGED <<singleCallVars, listVars, clock, storeVars, hederaClient, frameIdRef, calls>>

\* stopStreaming: if (intervalRef.current) clearInterval(intervalRef.current);
\* the video loses its source; setIsStreaming(false).  Calls in flight are
\* left alone.
StopStreaming(c) ==
    /\ isStreaming[c]
    /\ isStreaming' = [isStreaming EXCEPT ![c] = FALSE]
    /\ due' = [due EXCEPT ![c] = ClearInterval(@, intervalRef[c])]
    /\ UNCHANGED <<singleCallVars, listVars, clock, storeVars, hederaClient, intervalRef,
                   frameIdRef, starting, calls, feedTables>>

\* The callback of an interval runs: it returns at once when the video is
\* not ready (it has no source after stopStreaming), and otherwise posts the
\* frame with frame_id: frameIdRef.current++.
IntervalFires(c) ==
    /\ \E id \in DOMAIN due[c] :
          /\ due[c][id] <= clock
          /\ due' = [due EXCEPT ![c][id] = @ + INTERVAL_MS]
    /\ \/ UNCHANGED <<frameIdRef, calls>>
       \/ /\ isStreaming[c]
          /\ Posted(frameIdRef, Clients) < MaxCalls
          /\ \E e \in feed.expected :
                calls' = Append(calls, NewCall(c, frameIdRef[c], ExpectedPigCount(Body(e))))
          /\ frameIdRef' = [frameIdRef EXCEPT ![c] = @ + 1]
    /\ UNCHANGED <<singleCallVars, listVars, clock, storeVars, hederaClient, isStreaming,
                   intervalRef, starting, feedTables>>

\* A second passes; the intervals that are due fire first.
TimePasses ==
    /\ clock < feed.start + MaxSeconds * INTERVAL_MS
    /\ \A c \in Clients : \A id \in DOMAIN due[c] : due[c][id] > clock
    /\ clock' = clock + INTERVAL_MS
    /\ UNCHANGED <<singleCallVars, storeVars, hederaClient, clientVars>>

\* The handler of call k: the fetch rejects (500) or the detector's status
\* is not OK.
HandlerFails(k) ==
    /\ calls[k].pc = "fetching"
    /\ \E r \in {ErrorResponse(500, "Internal server error"),
                 ErrorResponse(503, "Backend processing failed")} :
          calls' = [calls EXCEPT ![k].pc = "responded", ![k].response = r]
    /\ UNCHANGED <<singleCallVars, listVars, clock, storeVars, hederaClient, isStreaming,
                   intervalRef, frameIdRef, due, starting, feedTables>>

\* The handler of call k: the detector answers, detectAlerts runs on the
\* module's maps and logToHedera is started for every alert.
HandlerDetects(k) ==
    /\ calls[k].pc = "fetching"
    /\ \E d \in feed.answers \ {NullAnswer} :
          LET r == detectAlerts(DetectionsOrEmpty(d), calls[k].expected_pig_count,
                                clock, pigPositionHistory, lastAlertTime)
              started == StartLogging(Len(r.alerts), hederaClient, env, <<>>)
              own == detectAlerts(DetectionsOrEmpty(d), calls[k].expected_pig_count,
                                  clock, feedTables[calls[k].client].hist,
                                  feedTables[calls[k].client].last)
          IN  /\ pigPositionHistory' = r.hist
              /\ lastAlertTime' = r.last
              /\ feedTables' = [feedTables EXCEPT
                     ![calls[k].client] = [hist |-> own.hist, last |-> own.last]]
              /\ IF r.threw
                 THEN /\ calls' = [calls EXCEPT
                            ![k].pc = "responded", ![k].at = clock, ![k].data = d,
                            ![k].response = ErrorResponse(500, "Internal server error")]
                      /\ UNCHANGED hederaClient
                 ELSE /\ calls' = [calls EXCEPT
                            ![k].pc = "logging", ![k].at = clock, ![k].data = d,
                            ![k].alerts = r.alerts, ![k].alone = own.alerts,
                            ![k].submissions = started.submissions]
                      /\ hederaClient' = started.client
    /\ UNCHANGED <<singleCallVars, listVars, clock, isStreaming, intervalRef, frameIdRef, due,
                   starting>>

\* The promises of call k as the ledger settles them.
SettledBy(subs, committed) ==
    [i \in 1..Len(subs) |->
        IF subs[i].stage = "done" THEN subs[i]
        ELSE IF committed[i] THEN Returned(1) ELSE Caught("ledger error")]

\* The handler of call k: Promise.all resolves and the 200 response is sent.
HandlerReturns(k) ==
    /\ calls[k].pc = "logging"
    /\ \E committed \in [1..Len(calls[k].submissions) -> BOOLEAN] :
          LET subs == SettledBy(calls[k].submissions, committed)
          IN  calls' = [calls EXCEPT
                  ![k].pc = "responded", ![k].submissions = subs,
                  ![k].response = SuccessResponse(calls[k].alerts, Receipts(subs))]
    /\ UNCHANGED <<singleCallVars, listVars, clock, storeVars, hederaClient, isStreaming,
                   intervalRef, frameIdRef, due, starting, feedTables>>

\* Mutant: the list is not cut.
Uncut(list) == SubSeq(list, 1, Len(list))

\* .slice(0, 50)
Slice(list) == SubSeq(list, 1, IF Len(list) < LIST_LIMIT THEN Len(list) ELSE LIST_LIMIT)

\* if (data.alerts && data.alerts.length > 0)
\*     setAlerts(prev => [...data.alerts, ...prev].slice(0, 50))
\* An error answer has no alerts field.
SetAlerts(prev, d) ==
    IF d.status = 200 /\ Len(d.alerts) > 0 THEN Slice(d.alerts \o prev) ELSE prev

\* if (data.hedera_receipts)
\*     setHederaReceipts(prev => [...data.hedera_receipts, ...prev].slice(0, 50))
\* An error answer has no hedera_receipts field.
SetHederaReceipts(prev, d) ==
    IF d.status = 200 THEN Slice(d.hedera_receipts \o prev) ELSE prev

\* The callback of call k resumes with the answer.
ClientReceives(k) ==
    /\ calls[k].pc = "responded"
    /\ calls' = Without(calls, k)
    /\ clientAlerts' = [clientAlerts EXCEPT
                           ![calls[k].client] = SetAlerts(@, calls[k].response)]
    /\ hederaReceipts' = [hederaReceipts EXCEPT
                             ![calls[k].client] = SetHederaReceipts(@, calls[k].response)]
    /\ UNCHANGED <<singleCallVars, clock, storeVars, hederaClient, isStreaming,
                   intervalRef, frameIdRef, due, starting, feedTables>>

ClientNext ==
    \/ \E c \in feed.clients : StartCamera(c)
    \/ \E c \in feed.clients : CameraDenied(c)
    \/ \E c \in feed.clients : StartDetection(c)
    \/ \E c \in feed.clients : StopStreaming(c)
    \/ \E c \in feed.clients : IntervalFires(c)
    \/ TimePasses
    \/ \E k \in 1..Len(calls) : HandlerFails(k)
    \/ \E k \in 1..Len(calls) : HandlerDetects(k)
    \/ \E k \in 1..Len(calls) : HandlerReturns(k)
    \/ \E k \in 1..Len(calls) : ClientReceives(k)

ClientSpec == ClientInit /\ [][ClientNext]_vars

(***************************************************************************)
(* The two lists of one component instance under answers of any size: the  *)
(* callback's list updates applied to a sequence of answers.               *)
(***************************************************************************)
\* The numbers of alerts an answer carries.
ListSizes == {0, 1, 2, 25, 30}

\* Alert i of answer r and the receipt of its submission: the ledger
\* rejects the submissions of even i.
ListAlert(r, i) == InactivityAlert(i, r)
ListReceipt(r, i) ==
    IF i % 2 = 0 THEN FailureReceipt("rejected " \o ToString(64 * r + i))
    ELSE SuccessReceipt(64 * r + i)

\* Answer r with n alerts and as many receipts.
ListAnswer(r, n) ==
    SuccessResponse([i \in 1..n |-> ListAlert(r, i)], [i \in 1..n |-> ListReceipt(r, i)])

\* The answers the instance has shown alerts of.
Shown(list) == IF list = <<>> THEN 0 ELSE list[1].timestamp

ListInit ==
    /\ feed = ClientFeed
    /\ Loaded

\* The callback resumes with an answer: a 200 answer with n alerts, or an
\* error answer.
ReceiveAnswer(c) ==
    /\ Shown(clientAlerts[c]) < MaxAnswers
    /\ \E d \in {ListAnswer(Shown(clientAlerts[c]) + 1, n) : n \in ListSizes}
                 \cup {ErrorResponse(500, "Internal server error")} :
          /\ clientAlerts' = [clientAlerts EXCEPT ![c] = SetAlerts(@, d)]
          /\ hederaReceipts' = [hederaReceipts EXCEPT ![c] = SetHederaReceipts(@, d)]
    /\ UNCHANGED <<singleCallVars, clock, storeVars, hederaClient, isStreaming,
                   intervalRef, frameIdRef, due, starting, calls, feedTables>>

ListNext == ReceiveAnswer("A")

ListSpec == ListInit /\ [][ListNext]_vars

(***************************************************************************)
(* Vocabulary of the properties                                            *)
(***************************************************************************)
\* This step is a call of detectAlerts (it returned or it threw).
DetectCalled == pc = "fetching" /\ pc' # "fetching" /\ data'.kind = "object"
\* This step is a call of detectAlerts that returned.
DetectReturned == pc = "fetching" /\ pc' = "logging"

\* The detections a call was given.
ItemsOf(d) == IF d.detections.kind = "array" THEN d.detections.items ELSE <<>>
IsList(d) == d.detections.kind \in {"array", "undefined"}

CountAlertsIn(as) == {i \in 1..Len(as) : as[i].alert_type = "count_mismatch"}
InactivityAlertsIn(as, t) ==
    {i \in 1..Len(as) : as[i].alert_type = "inactivity_alert" /\ as[i].pig_id = t}

\* The cooldown entry of a key: the set holding its value, empty when absent.
Entry(m, key) == IF key \in DOMAIN m THEN {m[key]} ELSE {}

\* An alert with this key was returned at most 30 seconds before `now`.
FiredWithinCooldown(key, now) ==
    key \in DOMAIN lastFired /\ now - lastFired[key] <= COOLDOWN_MS

(***************************************************************************)
(* C1: every call of detectAlerts whose number of detections differs from  *)
(* expectedCount returns exactly one count_mismatch alert, unless one was  *)
(* returned within the preceding 30 seconds, and then it returns none; for *)
(* every clock value, the first call included.                             *)
(***************************************************************************)
C1_MismatchFiresUnlessRecent ==
    [][ (DetectReturned /\ Len(ItemsOf(data')) # expected_pig_count)
        => Cardinality(CountAlertsIn(alerts')) =
             IF FiredWithinCooldown("count_mismatch", clock') THEN 0 ELSE 1 ]_vars

(***************************************************************************)
(* C2: a call of detectAlerts whose number of detections equals            *)
(* expectedCount returns no count_mismatch alert and leaves the            *)
(* count_mismatch cooldown entry as it was, whatever the track identifiers *)
(* and the prior state.                                                    *)
(***************************************************************************)
C2_EqualCountNoAlert ==
    [][ (DetectCalled /\ IsList(data') /\ Len(ItemsOf(data')) = expected_pig_count)
        => /\ pc' = "logging" => CountAlertsIn(alerts') = {}
           /\ Entry(lastAlertTime', "count_mismatch") = Entry(lastAlertTime, "count_mismatch")
           /\ Entry(lastFired', "count_mismatch") = Entry(lastFired, "count_mismatch") ]_vars

\* A call with as many detections as expected, one of them untracked, has
\* returned while a count_mismatch cooldown entry exists.
C2_Witness ==
    /\ pc = "logging"
    /\ Len(ItemsOf(data)) = expected_pig_count
    /\ \E i \in 1..Len(ItemsOf(data)) : ItemsOf(data)[i].track_id = UNDEFINED
    /\ "count_mismatch" \in DOMAIN lastAlertTime
    /\ alerts = <<>>

(***************************************************************************)
(* C3: two alerts with the same alert key are more than 30000 ms apart: an *)
(* attempt within 30 seconds of the key's last alert, exactly 30000 ms     *)
(* after it included, returns no alert; and one call returns no two alerts *)
(* of one key.                                                             *)
(***************************************************************************)
C3_SameKeyAlertsApart ==
    [][ DetectReturned
        => \A i \in 1..Len(alerts') :
             /\ FiredKey(alerts'[i]) \in DOMAIN lastFired
                  => clock' - lastFired[FiredKey(alerts'[i])] > COOLDOWN_MS
             /\ \A j \in 1..Len(alerts') :
                  FiredKey(alerts'[j]) = FiredKey(alerts'[i]) => j = i ]_vars

\* A count mismatch exactly 30000 ms after the last count_mismatch alert
\* returned no alert.
C3_Witness ==
    /\ pc = "logging"
    /\ Len(ItemsOf(data)) # expected_pig_count
    /\ CountAlertsIn(alerts) = {}
    /\ "count_mismatch" \in DOMAIN lastFired
    /\ clock - lastFired["count_mismatch"] = COOLDOWN_MS

\* The keys of the alerts a call returned.
KeysOf(as) == {FiredKey(as[i]) : i \in 1..Len(as)}
\* lastAlertTime.get(key) || 0, read for one key alone.
OwnEntry(m, key) == IF key \in DOMAIN m THEN m[key] ELSE 0
\* The track identifiers detectAlerts records.
TrackedIn(items) ==
    {items[i].track_id : i \in {j \in 1..Len(items) : items[j].track_id > 0}}
\* A stored window shows inactivity: 5 samples or more, the oldest and the
\* newest less than 50 apart (coordinates are stored doubled).
WindowInactive(w) ==
    /\ Len(w) >= 5
    /\ (w[Len(w)].x2 - w[1].x2) * (w[Len(w)].x2 - w[1].x2)
       + (w[Len(w)].y2 - w[1].y2) * (w[Len(w)].y2 - w[1].y2) < 100 * 100

(***************************************************************************)
(* C4: cooldowns are independent per alert key.  A call writes the         *)
(* cooldown entries of the keys whose alerts it returns, each to the       *)
(* call's time, and no other entry; and a key whose condition holds is     *)
(* suppressed only by its own entry: neither another track's alert nor a   *)
(* count_mismatch alert of the same or an earlier call suppresses it.      *)
(***************************************************************************)
C4_CooldownsIndependent ==
    [][ DetectReturned
        => /\ \A k \in (DOMAIN lastAlertTime') \cup (DOMAIN lastAlertTime) :
                IF k \in KeysOf(alerts')
                THEN Entry(lastAlertTime', k) = {clock'}
                ELSE Entry(lastAlertTime', k) = Entry(lastAlertTime, k)
           /\ KeysOf(alerts') \subseteq DOMAIN lastAlertTime'
           /\ (Len(ItemsOf(data')) # expected_pig_count /\ CountAlertsIn(alerts') = {})
                => clock' - OwnEntry(lastAlertTime, "count_mismatch") <= COOLDOWN_MS
           /\ \A t \in TrackedIn(ItemsOf(data')) :
                (WindowInactive(pigPositionHistory'[t]) /\ InactivityAlertsIn(alerts', t) = {})
                => clock' - OwnEntry(lastAlertTime, "inactivity_" \o ToString(t))
                     <= COOLDOWN_MS ]_vars

\* One call returned a count_mismatch alert and an inactivity alert for
\* each of two tracks.
C4_Witness ==
    /\ pc = "logging"
    /\ CountAlertsIn(alerts) # {}
    /\ InactivityAlertsIn(alerts, 1) # {}
    /\ InactivityAlertsIn(alerts, 2) # {}

\* A track's alert was returned while the other track's key and the
\* count_mismatch key were inside their cooldowns.
C4_WitnessStaggered ==
    /\ pc = "logging"
    /\ InactivityAlertsIn(alerts, 2) # {}
    /\ InactivityAlertsIn(alerts, 1) = {}
    /\ "inactivity_1" \in DOMAIN lastAlertTime
    /\ clock - lastAlertTime["inactivity_1"] <= COOLDOWN_MS
    /\ clock - lastAlertTime["inactivity_1"] > 0

\* The samples of track t that detections 1..i of a call add.
RECURSIVE AddedSamples(_, _, _, _)
AddedSamples(items, i, t, now) ==
    IF i = 0 THEN <<>>
    ELSE IF items[i].track_id = t
         THEN Append(AddedSamples(items, i - 1, t, now),
                     [x2 |-> 2 * items[i].x + items[i].width,
                      y2 |-> 2 * items[i].y + items[i].height,
                      timestamp |-> now])
    ELSE AddedSamples(items, i - 1, t, now)

\* The window of track t once detection i of the call is recorded and the
\* samples of 15 seconds or more ago are pruned.
WindowAt(stored, items, i, t, now) ==
    SelectSeq((IF t \in DOMAIN stored THEN stored[t] ELSE <<>>)
                \o AddedSamples(items, i, t, now),
              LAMBDA p : now - p.timestamp < 15000)

(***************************************************************************)
(* C5: a call returns an inactivity alert for a track only if, for some    *)
(* detection of that track in the call, the window after recording its     *)
(* sample and pruning holds at least 5 samples whose oldest and newest are *)
(* strictly less than 50 apart; a track for which no detection gives such  *)
(* a window gets no alert in that call.                                    *)
(***************************************************************************)
C5_InactivityOnlyIfStill ==
    [][ DetectReturned
        => \A a \in 1..Len(alerts') :
             alerts'[a].alert_type = "inactivity_alert"
             => \E i \in 1..Len(ItemsOf(data')) :
                  /\ ItemsOf(data')[i].track_id = alerts'[a].pig_id
                  /\ WindowInactive(WindowAt(pigPositionHistory, ItemsOf(data'), i,
                                             alerts'[a].pig_id, clock')) ]_vars

\* An alert was returned for a track seen once per frame, whose window holds
\* exactly 5 samples, the newest away from the oldest by less than 50.
C5_Witness ==
    /\ pc = "logging"
    /\ InactivityAlertsIn(alerts, 1) # {}
    /\ Len(pigPositionHistory[1]) = 5
    /\ pigPositionHistory[1][5].timestamp > pigPositionHistory[1][4].timestamp
    /\ pigPositionHistory[1][5].x2 # pigPositionHistory[1][1].x2

\* Twice the distance between two stored samples, squared.
Apart2Sq(p, q) == (q.x2 - p.x2) * (q.x2 - p.x2) + (q.y2 - p.y2) * (q.y2 - p.y2)
\* The sample a detection adds.
SampleOf(d, now) ==
    [x2 |-> 2 * d.x + d.width, y2 |-> 2 * d.y + d.height, timestamp |-> now]

(***************************************************************************)
(* C6: a track observed in 5 or more frames whose samples span 15 seconds  *)
(* or more, with first and last centers within 50 units, gets an           *)
(* inactivity alert unless one was returned for it in the preceding 30     *)
(* seconds; a track whose first and last centers are 50 or more apart gets *)
(* none.  Here: the track is detected once in this frame, it was seen in 4 *)
(* or more earlier frames, and the oldest stored sample is 15 s old or     *)
(* older.                                                                  *)
(***************************************************************************)
C6_StillTrackAlerts ==
    [][ DetectReturned
        => \A i \in 1..Len(ItemsOf(data')) :
             LET d == ItemsOf(data')[i]
                 t == d.track_id
                 seen == IF t \in DOMAIN pigPositionHistory
                         THEN pigPositionHistory[t] ELSE <<>>
             IN  (/\ t > 0
                  /\ \A j \in 1..Len(ItemsOf(data')) : ItemsOf(data')[j].track_id = t => j = i
                  /\ Len(seen) >= 4
                  /\ \A m \in 1..(Len(seen) - 1) : seen[m].timestamp < seen[m + 1].timestamp
                  /\ clock' - seen[1].timestamp >= 15000)
                 => IF Apart2Sq(seen[1], SampleOf(d, clock')) < 100 * 100
                    THEN FiredWithinCooldown("inactivity_" \o ToString(t), clock')
                         \/ InactivityAlertsIn(alerts', t) # {}
                    ELSE InactivityAlertsIn(alerts', t) = {} ]_vars

(***************************************************************************)
(* C7: a POST call in which detectAlerts returned n alerts answers with    *)
(* those n alerts and exactly n receipts, one per alert; the receipt of an *)
(* alert whose ledger call threw has success = false; while the call waits *)
(* there is one promise per alert.                                         *)
(***************************************************************************)
C7_OneReceiptPerAlert ==
    /\ pc = "logging" => Len(submissions) = Len(alerts)
    /\ (pc = "responded" /\ response.status = 200)
       => /\ response.alerts = alerts
          /\ response.alert_count = Len(alerts)
          /\ Len(response.hedera_receipts) = Len(alerts)
          /\ Len(submissions) = Len(alerts)
          /\ \A i \in 1..Len(alerts) :
                submissions[i].threw => ~response.hedera_receipts[i].success

\* A call answered with two alerts or more, one whose ledger call threw and
\* one whose submission was committed.
C7_Witness ==
    /\ pc = "responded"
    /\ response.status = 200
    /\ Len(response.alerts) >= 2
    /\ \E i \in 1..Len(submissions) : submissions[i].threw
    /\ \E i \in 1..Len(submissions) : response.hedera_receipts[i].success

(***************************************************************************)
(* C8: a POST call that waits for its ledger submissions eventually        *)
(* answers, even when the ledger never does.                               *)
(***************************************************************************)
C8_LoggingEventuallyAnswers == (pc = "logging") ~> (pc = "responded")

(***************************************************************************)
(* C9: a failed ledger submission neither aborts the frame nor ends the    *)
(* join early.  While a call waits for its submissions the two maps and    *)
(* the alerts stay as they are and each step settles or advances one       *)
(* submission and leaves the others alone; the call ends only when every   *)
(* submission has settled, and with the 200 response that holds every      *)
(* alert and each submission's own receipt.  (A step that changes health   *)
(* is a step of a GET call, not of the POST call.)                         *)
(***************************************************************************)
C9_FailureStaysLocal ==
    [][ (pc = "logging" /\ health' = health)
        => /\ pigPositionHistory' = pigPositionHistory
           /\ lastAlertTime' = lastAlertTime
           /\ alerts' = alerts
           /\ pc' = "logging"
                => /\ Len(submissions') = Len(submissions)
                   /\ \E i \in 1..Len(submissions) :
                        \A j \in 1..Len(submissions) :
                           j # i => submissions'[j] = submissions[j]
           /\ pc' # "logging"
                => /\ pc' = "responded"
                   /\ response'.status = 200
                   /\ response'.alerts = alerts
                   /\ Len(response'.hedera_receipts) = Len(alerts)
                   /\ \A i \in 1..Len(alerts) :
                        /\ submissions[i].stage = "done"
                        /\ response'.hedera_receipts[i] = submissions[i].receipt
                        /\ response'.hedera_receipts[i].success = ~submissions[i].threw ]_vars

\* A call answered 200 with three alerts: the first submission failed at
\* the ledger, a later one was committed.
C9_Witness ==
    /\ pc = "responded"
    /\ response.status = 200
    /\ Len(response.alerts) = 3
    /\ response.hedera_receipts[1].error = "ledger error"
    /\ response.hedera_receipts[3].success

\* The detector's answer is malformed: JSON null, no detections field, a
\* detections value that is no list, or a list with a null element.
Malformed(d) ==
    \/ d.kind = "null"
    \/ d.detections.kind \in {"undefined", "object"}
    \/ \E i \in 1..Len(d.detections.items) : d.detections.items[i].kind = "null"

(***************************************************************************)
(* C10: when the detector does not respond, answers with a non-OK status   *)
(* or returns malformed output, the POST call ends with an error response  *)
(* and changes neither the track-history map nor the cooldown map.         *)
(***************************************************************************)
C10_UpstreamFailureAborts ==
    [][ (pc = "fetching" /\ pc' # "fetching" /\ (data' = NoData \/ Malformed(data')))
        => /\ pc' = "responded"
           /\ response'.status # 200
           /\ pigPositionHistory' = pigPositionHistory
           /\ lastAlertTime' = lastAlertTime ]_vars

\* A detection of the answer has a negative width or height.
NegativeDimensions(d) ==
    \E i \in 1..Len(ItemsOf(d)) :
       ItemsOf(d)[i].kind = "detection"
       /\ (ItemsOf(d)[i].width < 0 \/ ItemsOf(d)[i].height < 0)

(***************************************************************************)
(* C11: a request with malformed input (no expected count in the body, or  *)
(* a detection with a negative width or height) is rejected before any     *)
(* rule is evaluated: the call ends with an error response, returns no     *)
(* alert and leaves the track-history and cooldown maps unchanged.         *)
(***************************************************************************)
C11_MalformedInputRejected ==
    [][ (/\ pc = "fetching"
         /\ pc' # "fetching"
         /\ data'.kind = "object"
         /\ (body.expected_pig_count = UNDEFINED \/ NegativeDimensions(data')))
        => /\ pc' = "responded"
           /\ response'.status # 200
           /\ alerts' = <<>>
           /\ pigPositionHistory' = pigPositionHistory
           /\ lastAlertTime' = lastAlertTime ]_vars

\* The handler of a call has returned.
HasReturned(call) == call.pc = "responded"
\* detectAlerts has run for a call.
Evaluated(call) == call.at # UNDEFINED

(***************************************************************************)
(* C12: for one component instance at most one call is in flight at a      *)
(* time: no call of an instance has its rules evaluated (and its alerts    *)
(* submitted to the ledger) while an earlier call of that instance has not *)
(* returned, even when a call takes longer than the polling period.        *)
(***************************************************************************)
C12_OneCallInFlight ==
    \A j, k \in 1..Len(calls) :
       (j < k /\ calls[j].client = calls[k].client /\ Evaluated(calls[k]))
       => HasReturned(calls[j])

\* Call k's handler runs detectAlerts in this step and it returns.
Evaluates(k) ==
    /\ k \in 1..Len(calls)
    /\ calls[k].pc = "fetching"
    /\ Len(calls') = Len(calls)
    /\ calls'[k].pc = "logging"

(***************************************************************************)
(* C13: two feeds share no mutable state.  Every call returns the alerts   *)
(* its own feed's frames since the feed was started produce, whatever      *)
(* another feed submitted in between (no count mismatch or inactivity of   *)
(* another feed suppresses its keys, and a feed that was stopped and       *)
(* started again begins with empty tables), and the window of a track it   *)
(* evaluates holds the samples of its own feed only.                       *)
(***************************************************************************)
C13_FeedsIsolated ==
    [][ \A k \in 1..Len(calls) :
          Evaluates(k)
          => /\ calls'[k].alerts = calls'[k].alone
             /\ \A t \in TrackedIn(ItemsOf(calls'[k].data)) :
                  pigPositionHistory'[t] = feedTables'[calls[k].client].hist[t] ]_vars

\* Every frame of the run has one and the same count mismatch.
SameMismatchEveryFrame ==
    /\ Cardinality(feed.expected) = 1
    /\ Cardinality({Len(ItemsOf(d)) : d \in feed.answers}) = 1
    /\ \A d \in feed.answers, e \in feed.expected :
          /\ d.kind = "object"
          /\ d.detections.kind = "array"
          /\ e # UNDEFINED
          /\ Len(ItemsOf(d)) # e

(***************************************************************************)
(* C14: when the same count mismatch holds in every frame, the first       *)
(* frame's call returns a count_mismatch alert, every later frame within   *)
(* 30 seconds of the last alert returns none, and the first frame after    *)
(* the cooldown has elapsed returns a count_mismatch alert again.          *)
(***************************************************************************)
C14_RepeatedMismatch ==
    [][ (DetectReturned /\ SameMismatchEveryFrame)
        => IF "count_mismatch" \in DOMAIN lastFired
              /\ clock' - lastFired["count_mismatch"] <= COOLDOWN_MS
           THEN CountAlertsIn(alerts') = {}
           ELSE Cardinality(CountAlertsIn(alerts')) = 1 ]_vars

(***************************************************************************)
(* C15: in every 200 response alert_count is the number of alerts, which   *)
(* is the number of receipts, and the receipt at position i is what the    *)
(* submission of the alert at position i resolved with, whatever order the *)
(* submissions resolved in.                                                *)
(***************************************************************************)
C15_ReceiptsPositional ==
    (pc = "responded" /\ response.status = 200)
    => /\ response.alert_count = Len(response.alerts)
       /\ Len(response.hedera_receipts) = Len(response.alerts)
       /\ response.alerts = alerts
       /\ \A i \in 1..Len(response.alerts) :
             /\ submissions[i].stage = "done"
             /\ response.hedera_receipts[i] = submissions[i].receipt

\* A call answered with three alerts whose last submission resolved first
\* and whose first resolved last, with receipts that differ.
C15_Witness ==
    /\ pc = "responded"
    /\ response.status = 200
    /\ Len(response.alerts) = 3
    /\ settled = <<3, 2, 1>>
    /\ response.hedera_receipts[1] # response.hedera_receipts[3]

(***************************************************************************)
(* C16: a POST call whose detectAlerts returned no alert (the count        *)
(* matches and no track is inactive, or every condition that holds is in   *)
(* its cooldown) starts no ledger submission and does not touch the ledger *)
(* client, and the next thing it does is answer 200 with an empty alerts   *)
(* list, alert_count 0 and an empty receipts list.  (A step that changes   *)
(* health is a step of a GET call, not of the POST call.)                  *)
(***************************************************************************)
C16_NoAlertEmptySuccess ==
    [][ /\ (DetectReturned /\ alerts' = <<>>)
           => (submissions' = <<>> /\ hederaClient' = hederaClient)
        /\ (pc = "logging" /\ alerts = <<>> /\ health' = health)
           => /\ pc' = "responded"
              /\ response'.status = 200
              /\ response'.alerts = <<>>
              /\ response'.alert_count = 0
              /\ response'.hedera_receipts = <<>>
              /\ hederaClient' = hederaClient ]_vars

\* A call answered 200 with no alert and no receipt for a frame whose count
\* mismatch was inside the cooldown of an alert returned before.
C16_Witness ==
    /\ pc = "responded"
    /\ response.status = 200
    /\ response.alerts = <<>>
    /\ response.hedera_receipts = <<>>
    /\ data.kind = "object"
    /\ Len(ItemsOf(data)) # expected_pig_count
    /\ "count_mismatch" \in DOMAIN lastFired
    /\ clock - lastFired["count_mismatch"] <= COOLDOWN_MS

(***************************************************************************)
(* C17: a call that was cancelled after its alerts had fired and before    *)
(* all their submissions had completed answers with one receipt per fired  *)
(* alert, and the receipt of every alert that had no receipt yet when the  *)
(* call was cancelled has success = false.                                 *)
(***************************************************************************)
C17_CancelledFailureReceipts ==
    (pc = "responded" /\ cancelled.aborted)
    => /\ Len(response.hedera_receipts) = Len(alerts)
       /\ \A i \in cancelled.pending : ~response.hedera_receipts[i].success

(***************************************************************************)
(* C18: after every call of detectAlerts, for every track that appeared in *)
(* the call, the stored samples are strictly increasing in timestamp and   *)
(* all younger than 15 seconds, also when two detections of the batch      *)
(* carry the same track identifier.                                        *)
(***************************************************************************)
C18_HistoryIncreasingWindowed ==
    [][ DetectReturned
        => \A t \in TrackedIn(ItemsOf(data')) :
             /\ \A m \in 1..(Len(pigPositionHistory'[t]) - 1) :
                   pigPositionHistory'[t][m].timestamp
                     < pigPositionHistory'[t][m + 1].timestamp
             /\ \A m \in 1..Len(pigPositionHistory'[t]) :
                   clock' - pigPositionHistory'[t][m].timestamp < 15000 ]_vars

(***************************************************************************)
(* C19: every detection that carries a track identifier, 0 included, has   *)
(* its bounding-box center recorded in that track's history by the call;   *)
(* only detections without a track identifier are skipped.                 *)
(***************************************************************************)
C19_EveryTrackedDetectionRecorded ==
    [][ DetectReturned
        => \A i \in 1..Len(ItemsOf(data')) :
             LET d == ItemsOf(data')[i]
             IN  d.track_id # UNDEFINED
                 => /\ d.track_id \in DOMAIN pigPositionHistory'
                    /\ \E m \in 1..Len(pigPositionHistory'[d.track_id]) :
                          pigPositionHistory'[d.track_id][m] = SampleOf(d, clock') ]_vars

(***************************************************************************)
(* C20: a track that does not appear in a frame gets no sample and no      *)
(* inactivity alert from that call, and its stored samples and cooldown    *)
(* entry stay as they were; when a track appears again more than 15        *)
(* seconds after all its stored samples, none of them is left in its       *)
(* window: the window holds this call's samples only.                      *)
(***************************************************************************)
C20_AbsentTrackAgesOut ==
    [][ DetectReturned
        => /\ \A t \in (DOMAIN pigPositionHistory) \ TrackedIn(ItemsOf(data')) :
                /\ t \in DOMAIN pigPositionHistory'
                /\ pigPositionHistory'[t] = pigPositionHistory[t]
                /\ InactivityAlertsIn(alerts', t) = {}
                /\ Entry(lastAlertTime', "inactivity_" \o ToString(t))
                     = Entry(lastAlertTime, "inactivity_" \o ToString(t))
           /\ \A t \in (DOMAIN pigPositionHistory) \cap TrackedIn(ItemsOf(data')) :
                (/\ pigPositionHistory[t] # <<>>
                 /\ \A m \in 1..Len(pigPositionHistory[t]) :
                       clock' - pigPositionHistory[t][m].timestamp > 15000)
                => \A m \in 1..Len(pigPositionHistory'[t]) :
                      pigPositionHistory'[t][m].timestamp = clock' ]_vars

\* Track 1, for which an inactivity alert was returned more than 15 seconds
\* ago (it had 5 samples or more then), is detected once in this call, and
\* its window holds this call's sample alone.
C20_Witness ==
    /\ pc = "logging"
    /\ 1 \in TrackedIn(ItemsOf(data))
    /\ "inactivity_1" \in DOMAIN lastFired
    /\ clock - lastFired["inactivity_1"] > 15000
    /\ Len(pigPositionHistory[1]) = 1
    /\ pigPositionHistory[1][1].timestamp = clock

\* A call in whose frame track 1 is missing has returned, with samples of
\* track 1 still stored that are more than 15 seconds old.
C20_WitnessAbsent ==
    /\ pc = "logging"
    /\ 1 \notin TrackedIn(ItemsOf(data))
    /\ 1 \in DOMAIN pigPositionHistory
    /\ pigPositionHistory[1] # <<>>
    /\ clock - pigPositionHistory[1][Len(pigPositionHistory[1])].timestamp > 15000

(***************************************************************************)
(* C21: every count_mismatch alert a call returns has severity high and    *)
(* carries the expected and the observed count; its risk text is the       *)
(* missing-pig text exactly when fewer detections than expected were       *)
(* observed and the unauthorized-entry text exactly when more were.  Every *)
(* inactivity alert has severity medium and carries the track identifier   *)
(* of a detection of the call whose window shows inactivity.               *)
(***************************************************************************)
C21_AlertContents ==
    [][ DetectReturned
        => \A a \in 1..Len(alerts') :
             /\ alerts'[a].alert_type \in {"count_mismatch", "inactivity_alert"}
             /\ alerts'[a].alert_type = "count_mismatch"
                  => /\ alerts'[a].severity = "high"
                     /\ alerts'[a].expected_count = expected_pig_count
                     /\ alerts'[a].detected_count = Len(ItemsOf(data'))
                     /\ alerts'[a].risk = "Missing pig - possibly sick and hiding"
                          <=> Len(ItemsOf(data')) < expected_pig_count
                     /\ alerts'[a].risk = "Extra pig detected - unauthorized entry"
                          <=> Len(ItemsOf(data')) > expected_pig_count
             /\ alerts'[a].alert_type = "inactivity_alert"
                  => /\ alerts'[a].severity = "medium"
                     /\ \E i \in 1..Len(ItemsOf(data')) :
                           /\ ItemsOf(data')[i].track_id = alerts'[a].pig_id
                           /\ WindowInactive(WindowAt(pigPositionHistory, ItemsOf(data'), i,
                                                      alerts'[a].pig_id, clock')) ]_vars

\* A call that saw more detections than expected returned a count_mismatch
\* alert together with the inactivity alerts of two tracks.
C21_Witness ==
    /\ pc = "logging"
    /\ Len(alerts) = 3
    /\ alerts[1].alert_type = "count_mismatch"
    /\ alerts[1].detected_count > alerts[1].expected_count
    /\ alerts[2].severity = "medium" /\ alerts[2].pig_id = 1
    /\ alerts[3].severity = "medium" /\ alerts[3].pig_id = 2

\* A call that saw fewer detections than expected returned a count_mismatch
\* alert.
C21_WitnessMissing ==
    /\ pc = "logging"
    /\ CountAlertsIn(alerts) # {}
    /\ Len(ItemsOf(data)) < expected_pig_count

(***************************************************************************)
(* C22: every alert detectAlerts returns is passed to logToHedera exactly  *)
(* once: the call starts one submission per alert, for the alerts of this  *)
(* call only; a submission is attempted at most once, so that one that has *)
(* settled, failed or not, is never started again, neither in the same     *)
(* call nor in a later frame, and each settles once.                       *)
(***************************************************************************)
C22_OneAttemptPerAlert ==
    [][ /\ DetectReturned
            => /\ Len(submissions') = Len(alerts')
               /\ \A i \in 1..Len(alerts') : alerts'[i].timestamp = clock'
        /\ ~DetectReturned
            => \A i \in 1..Len(submissions') :
                 submissions'[i].stage = "execute"
                 => i <= Len(submissions) /\ submissions[i].stage = "execute"
        /\ pc = "logging"
            => /\ Len(submissions') = Len(alerts)
               /\ \A i \in 1..Len(submissions) :
                    submissions[i].stage = "done" => submissions'[i] = submissions[i]
        /\ \A i, j \in 1..Len(settled') : settled'[i] = settled'[j] => i = j ]_vars

\* A call with two alerts or more was answered although the ledger
\* rejected one submission: every submission settled once.
C22_Witness ==
    /\ pc = "responded"
    /\ response.status = 200
    /\ Len(alerts) >= 2
    /\ Len(settled) = Len(alerts)
    /\ \E i \in 1..Len(submissions) : submissions[i].receipt.error = "ledger error"
    /\ \E i \in 1..Len(submissions) : submissions[i].receipt.success

(***************************************************************************)
(* C23: the position-history map and the cooldown map are written only     *)
(* while detectAlerts evaluates a frame: the steps of logToHedera, the     *)
(* failure paths of POST that do not reach detectAlerts, the return of     *)
(* POST and GET leave both maps as they were.                              *)
(***************************************************************************)
C23_TablesWrittenByDetectAlertsOnly ==
    [][ (pigPositionHistory' # pigPositionHistory \/ lastAlertTime' # lastAlertTime)
        => DetectCalled /\ health' = health ]_vars

\* Both maps are filled, GET has answered after trying the ledger client,
\* and the POST call in flight has failed.
C23_Witness ==
    /\ health.status = 200
    /\ pc = "responded"
    /\ response.status \in {500, 503}
    /\ pigPositionHistory # EmptyMap
    /\ lastAlertTime # EmptyMap

\* GET has answered 'error' while a POST call awaits the ledger, one of its
\* submissions having failed already.
C23_WitnessLedger ==
    /\ health.hedera = "error"
    /\ pc = "logging"
    /\ lastAlertTime # EmptyMap
    /\ \E i \in 1..Len(submissions) : submissions[i].threw

(***************************************************************************)
(* C24: a cooldown entry is created when its key first fires, is set to    *)
(* the firing time on every later fire and is never deleted; an attempt    *)
(* the cooldown suppresses leaves the entry as it was; so that the entry   *)
(* of a key always equals the time of the latest alert returned with that  *)
(* key.                                                                    *)
(***************************************************************************)
C24_EntryIsLatestAlert ==
    [][ /\ DOMAIN lastAlertTime \subseteq DOMAIN lastAlertTime'
        /\ \A k \in DOMAIN lastAlertTime' :
              Entry(lastAlertTime', k) # Entry(lastAlertTime, k)
              => DetectCalled /\ lastAlertTime'[k] = clock'
        /\ DOMAIN lastAlertTime' = DOMAIN lastFired'
        /\ \A k \in DOMAIN lastAlertTime' : lastAlertTime'[k] = lastFired'[k] ]_vars

(***************************************************************************)
(* C25: whenever a POST call sets a cooldown entry, an alert with that key *)
(* is in the response of that same call: the evaluation does not fail      *)
(* after a cooldown was consumed, and the call answers with the alerts     *)
(* detectAlerts returned.                                                  *)
(***************************************************************************)
C25_CooldownSetAlertAnswered ==
    [][ /\ \A k \in DOMAIN lastAlertTime' :
              Entry(lastAlertTime', k) # Entry(lastAlertTime, k)
              => pc' = "logging" /\ k \in KeysOf(alerts')
        /\ pc = "logging"
              => /\ alerts' = alerts
                 /\ pc' = "responded" => response'.status = 200 /\ response'.alerts = alerts
      ]_vars

(***************************************************************************)
(* C26: the count-mismatch cooldown has one key, whatever the direction of *)
(* the mismatch and the counts: once a count_mismatch alert was returned,  *)
(* every mismatch of the next 30 seconds returns none, with fewer          *)
(* detections than expected or with more, and with the same counts as the  *)
(* alert or with others; the alert stays the latest one.                   *)
(***************************************************************************)
C26_OneKeyForEveryMismatch ==
    [][ (/\ DetectReturned
         /\ lastMismatch # NoAlert
         /\ clock' - lastMismatch.timestamp <= 30000
         /\ clock' - lastMismatch.timestamp >= 0)
        => /\ Len(ItemsOf(data')) < expected_pig_count => CountAlertsIn(alerts') = {}
           /\ Len(ItemsOf(data')) > expected_pig_count => CountAlertsIn(alerts') = {}
           /\ lastMismatch' = lastMismatch ]_vars

\* A call with more detections than expected returned no count_mismatch
\* alert, less than 30 seconds after an alert for a missing pig.
C26_Witness ==
    /\ pc = "logging"
    /\ Len(ItemsOf(data)) > expected_pig_count
    /\ CountAlertsIn(alerts) = {}
    /\ lastMismatch.risk = "Missing pig - possibly sick and hiding"
    /\ lastMismatch.detected_count < lastMismatch.expected_count
    /\ clock - lastMismatch.timestamp < 30000
    /\ clock - lastMismatch.timestamp > 0

\* A call with fewer detections than expected returned no count_mismatch
\* alert, less than 30 seconds after an alert for an extra pig.
C26_WitnessReverse ==
    /\ pc = "logging"
    /\ Len(ItemsOf(data)) < expected_pig_count
    /\ CountAlertsIn(alerts) = {}
    /\ lastMismatch.risk = "Extra pig detected - unauthorized entry"
    /\ clock - lastMismatch.timestamp < 30000
    /\ clock - lastMismatch.timestamp > 0

\* The first detection of track t in a call whose window shows inactivity
\* (0 when there is none).
FirstInactive(stored, items, t, now) ==
    LET S == {i \in 1..Len(items) :
                /\ items[i].track_id = t
                /\ WindowInactive(WindowAt(stored, items, i, t, now))}
    IN  IF S = {} THEN 0 ELSE CHOOSE i \in S : \A j \in S : i <= j

(***************************************************************************)
(* C27: one call of detectAlerts returns at most one alert per alert key,  *)
(* also when a track identifier occurs in several detections of the batch; *)
(* a count_mismatch alert is the first alert of the list, and the          *)
(* inactivity alerts follow in the order of the detections that triggered  *)
(* them.                                                                   *)
(***************************************************************************)
C27_OneAlertPerKeyInOrder ==
    [][ DetectReturned
        => /\ \A i, j \in 1..Len(alerts') :
                FiredKey(alerts'[i]) = FiredKey(alerts'[j]) => i = j
           /\ CountAlertsIn(alerts') \subseteq {1}
           /\ \A i, j \in 1..Len(alerts') :
                (/\ i < j
                 /\ alerts'[i].alert_type = "inactivity_alert"
                 /\ alerts'[j].alert_type = "inactivity_alert")
                => FirstInactive(pigPositionHistory, ItemsOf(data'), alerts'[i].pig_id, clock')
                     < FirstInactive(pigPositionHistory, ItemsOf(data'), alerts'[j].pig_id, clock')
      ]_vars

\* A batch of ten detections, five of each of two tracks and track 2 first,
\* returned the count_mismatch alert, then the alert of track 1, whose fifth
\* detection comes first, then the alert of track 2.
C27_Witness ==
    /\ pc = "logging"
    /\ Len(ItemsOf(data)) = 10
    /\ ItemsOf(data)[1].track_id = 2
    /\ Len(alerts) = 3
    /\ alerts[1].alert_type = "count_mismatch"
    /\ alerts[2].pig_id = 1
    /\ alerts[3].pig_id = 2

C29_OneIntervalStopClearsAll ==
    [][ \A c \in Clients :
          /\ Cardinality(DOMAIN due'[c]) <= 1
          /\ (isStreaming[c] /\ ~isStreaming'[c]) => DOMAIN due'[c] = {}
          /\ frameIdRef'[c] # frameIdRef[c]
               => /\ isStreaming[c]
                  /\ frameIdRef'[c] > frameIdRef[c]
                  /\ \A k \in 1..Len(calls) :
                        calls[k].client = c => calls[k].frame_id < calls'[Len(calls')].frame_id
      ]_vars

(***************************************************************************)
(* C30: the alert list and the receipt list of a component instance hold   *)
(* at most 50 entries each, the entries of the newest answer first and in  *)
(* the answer's order; and as long as every answer carries as many         *)
(* receipts as alerts, the lists are aligned: they have the same length    *)
(* and the receipt at a position is the receipt of the alert there.        *)
(***************************************************************************)
C30_ListsCappedAligned ==
    \A c \in Clients :
      /\ Len(clientAlerts[c]) <= 50
      /\ Len(hederaReceipts[c]) <= 50
      /\ Len(hederaReceipts[c]) = Len(clientAlerts[c])
      /\ \A i \in 1..Len(clientAlerts[c]) :
            hederaReceipts[c][i]
              = ListReceipt(clientAlerts[c][i].timestamp, clientAlerts[c][i].pig_id)
      /\ \A i, j \in 1..Len(clientAlerts[c]) :
            i < j => \/ clientAlerts[c][i].timestamp > clientAlerts[c][j].timestamp
                     \/ /\ clientAlerts[c][i].timestamp = clientAlerts[c][j].timestamp
                        /\ clientAlerts[c][i].pig_id < clientAlerts[c][j].pig_id

\* The lists are full: they show the alerts and receipts of three answers,
\* the oldest of which had 30 alerts and has lost all but 19 of them.
C30_Witness ==
    /\ Len(clientAlerts["A"]) = 50
    /\ Len(hederaReceipts["A"]) = 50
    /\ clientAlerts["A"][1].timestamp = clientAlerts["A"][50].timestamp + 2
    /\ clientAlerts["A"][50].pig_id = 19
    /\ ~hederaReceipts["A"][2].success

====
